---- MODULE Spec2Model ----
(***************************************************************************)
(* A model of the memfs adapter (src/src/memfs-adapter.ts) and of the      *)
(* shell's command loop that drives it (src/unnamed/part_001).             *)
(*                                                                         *)
(* The volume is a tree of nodes addressed by paths (sequences of names);  *)
(* a MemfsWritableFileStream is a detached buffer with a cursor and a      *)
(* closed flag that publishes to the volume on close.                      *)
(***************************************************************************)
EXTENDS Integers, Sequences, FiniteSets, TLC

VARIABLES
  vol,      \* the memfs Volume: path -> node
  streams,  \* the MemfsWritableFileStream objects, by identity
  last,     \* the last adapter call: what it was, on what, and how it ended
  pc,       \* the shell's position in its command loop
  redirectedStdout, \* the shell's redirect stream for the running command (0: none)
  outcome,  \* how the last command's Bindings.run ended
  aborted,  \* abortController.signal.aborted of the running command
  ctrlCHandler, \* whether the command's Ctrl+C handler is registered
  redirectBase, \* what the redirect's file is to keep: its content at set-up for >>
  stdoutBytes,  \* the bytes the running command has written to its stdout
  pwd,      \* the shell's working directory
  iter,     \* the directory enumeration in progress, and the one before it
  dirHandles, \* the directories a MemfsDirectoryHandle has been obtained for
  heap,     \* the Uint8Array objects: the bytes each array holds, by identity
  dataRef   \* the array each stream's `data` field refers to (0: none)

vars ==
  <<vol, streams, last, pc, redirectedStdout, outcome, aborted, ctrlCHandler,
    redirectBase, stdoutBytes, pwd, iter, dirHandles, heap, dataRef>>

(***************************************************************************)
(* Bounds of the model.                                                    *)
(***************************************************************************)
\* the longest buffer a stream is driven to
MaxLen == 3
\* the longest chunk one write call carries
MaxWrite == 2

\* the longest buffer of a stream driven while the tree above it changes
FsMaxLen == 2
\* the longest buffer of each of two streams driven side by side
TwoMaxLen == 1

\* the longest file the shell's redirects are driven to
ShellMaxLen == 4

\* The byte values written: zero, which is also what a fill leaves, and a
\* non-zero one.  The code never looks at a byte's value.
Byte == {0, 1}

\* every byte sequence of length 0..n
RECURSIVE SeqsUpTo(_)
SeqsUpTo(n) ==
  IF n = 0 THEN {<<>>}
  ELSE LET S == SeqsUpTo(n - 1)
       IN  S \cup {Append(s, b) : s \in {t \in S : Len(t) = n - 1}, b \in Byte}

\* n zero bytes: what `new Uint8Array(n)` holds
Zeros(n) == [i \in 1..n |-> 0]

Max(a, b) == IF a >= b THEN a ELSE b

(***************************************************************************)
(* Paths.  '/' is <<>>, '/sandbox/d' is <<"sandbox", "d">>.                *)
(***************************************************************************)
Root == <<>>
Sandbox == <<"sandbox">>
Tmp == <<"tmp">>
InputTxt == <<"sandbox", "input.txt">>
Input2Txt == <<"sandbox", "input2.txt">>
NotADir == <<"sandbox", "notadir">>
SandboxD == <<"sandbox", "d">>
SandboxDOut == <<"sandbox", "d", "out">>
SandboxOut == <<"sandbox", "out">>
RootOut == <<"out">>

\* the paths of the model's universe, closed under taking the parent
Paths ==
  {Root, Sandbox, Tmp, InputTxt, Input2Txt, NotADir,
   SandboxD, SandboxDOut, SandboxOut, RootOut}

\* `this.path === '/' ? `/${name}` : `${this.path}/${name}``
Child(dir, name) == Append(dir, name)

\* `this.path.substring(0, this.path.lastIndexOf('/'))`; '' for a child of the root
Parent(p) == SubSeq(p, 1, Len(p) - 1)

BaseName(p) == p[Len(p)]

IsPrefix(a, b) == Len(a) <= Len(b) /\ SubSeq(b, 1, Len(a)) = a

\* a path's proper ancestors below the root, and the path itself
Steps(p) == {SubSeq(p, 1, i) : i \in 1..Len(p)}

(***************************************************************************)
(* The volume (memfs).  A node is absent, a directory or a file.           *)
(***************************************************************************)
NoNode == [k |-> "none", d |-> <<>>]
DirNode == [k |-> "dir", d |-> <<>>]
FileNode(bytes) == [k |-> "file", d |-> bytes]

Kind(v, p) == v[p].k

\* the bytes of the prepopulated files, as character codes
HelloInput ==
  <<104, 101, 108, 108, 111, 32, 102, 114, 111, 109, 32,
    105, 110, 112, 117, 116, 46, 116, 120, 116, 10>>
\* input2.txt's text as the README quotes it, without the newline
HelloInput2NoNewline ==
  <<104, 101, 108, 108, 111, 32, 102, 114, 111, 109, 32,
    105, 110, 112, 117, 116, 50, 46, 116, 120, 116>>
HelloInput2 ==
  <<104, 101, 108, 108, 111, 32, 102, 114, 111, 109, 32,
    105, 110, 112, 117, 116, 50, 46, 116, 120, 116, 10>>

\* `new Volume()`: the root alone
EmptyVolume == [p \in Paths |-> IF p = Root THEN DirNode ELSE NoNode]

\* some ancestor of p (below the root) is a file
UnderFile(v, p) == \E q \in Steps(Parent(p)) : Kind(v, q) = "file"

\* Volume.mkdirSync(dir, {recursive: true})
mkdirSyncRecursive(v, dir) ==
  IF \E q \in Steps(dir) : Kind(v, q) = "file"
  THEN [err |-> "ENOTDIR", vol |-> v]
  ELSE [err |-> "ok",
        vol |-> [p \in Paths |-> IF p \in Steps(dir) THEN DirNode ELSE v[p]]]

\* Volume.writeFileSync(path, data): replaces the whole content
writeFileSync(v, p, bytes) ==
  IF Kind(v, p) = "dir" THEN [err |-> "EISDIR", vol |-> v]
  ELSE IF Kind(v, Parent(p)) # "dir" THEN [err |-> "ENOENT", vol |-> v]
  ELSE [err |-> "ok", vol |-> [v EXCEPT ![p] = FileNode(bytes)]]

\* Volume.readFileSync(path): the outcomes it may have.  Below a file memfs
\* reports ENOENT or ENOTDIR, depending on its version.
readFileSync(v, p) ==
  IF Kind(v, p) = "file" THEN {[err |-> "ok", data |-> v[p].d]}
  ELSE IF Kind(v, p) = "dir" THEN {[err |-> "EISDIR", data |-> <<>>]}
  ELSE IF UnderFile(v, p)
       THEN {[err |-> "ENOENT", data |-> <<>>], [err |-> "ENOTDIR", data |-> <<>>]}
  ELSE {[err |-> "ENOENT", data |-> <<>>]}

\* Volume.statSync(path): the outcomes it may have, the node's kind or the
\* error's code.  Below a file memfs reports ENOENT or ENOTDIR, depending on
\* its version.
statSync(v, p) ==
  IF Kind(v, p) # "none" THEN {Kind(v, p)}
  ELSE IF UnderFile(v, p) THEN {"ENOENT", "ENOTDIR"}
  ELSE {"ENOENT"}

\* the names of the model's universe in the order of JavaScript's sort()
NameOrder == <<"d", "input.txt", "input2.txt", "notadir", "out", "sandbox", "tmp">>

\* Volume.readdirSync(path): the names of the directory's entries, sorted
readdirSync(v, dir) ==
  LET IsEntry(name) == Child(dir, name) \in Paths /\ Kind(v, Child(dir, name)) # "none"
  IN
  IF Kind(v, dir) = "dir" THEN {[err |-> "ok", names |-> SelectSeq(NameOrder, IsEntry)]}
  ELSE IF Kind(v, dir) = "file" THEN {[err |-> "ENOTDIR", names |-> <<>>]}
  ELSE IF UnderFile(v, dir)
       THEN {[err |-> "ENOENT", names |-> <<>>], [err |-> "ENOTDIR", names |-> <<>>]}
  ELSE {[err |-> "ENOENT", names |-> <<>>]}

\* the entries of a directory
Entries(v, dir) == {p \in Paths : p # Root /\ Parent(p) = dir /\ Kind(v, p) # "none"}

\* Volume.rmSync(path, {recursive: true, force: true})
rmSyncRecursive(v, p) ==
  [err |-> "ok", vol |-> [q \in Paths |-> IF IsPrefix(p, q) THEN NoNode ELSE v[q]]]

\* Volume.rmdirSync(path)
rmdirSync(v, p) ==
  IF Entries(v, p) # {} THEN [err |-> "ENOTEMPTY", vol |-> v]
  ELSE [err |-> "ok", vol |-> [v EXCEPT ![p] = NoNode]]

\* Volume.unlinkSync(path)
unlinkSync(v, p) == [err |-> "ok", vol |-> [v EXCEPT ![p] = NoNode]]

\* createMemoryFileSystem(): the prepopulated volume
createMemoryFileSystem ==
  LET v1 == mkdirSyncRecursive(EmptyVolume, Sandbox).vol
      v2 == mkdirSyncRecursive(v1, Tmp).vol
      v3 == writeFileSync(v2, InputTxt, HelloInput).vol
      v4 == writeFileSync(v3, Input2Txt, HelloInput2).vol
  IN  writeFileSync(v4, NotADir, <<>>).vol

(***************************************************************************)
(* MemfsWritableFileStream: the object's fields, and its methods as        *)
(* functions of the object (and of the volume where they read or write it) *)
(* `made` tells a stream object from none; `failed` is history, not a      *)
(* field of the object: whether its close has thrown.                      *)
(***************************************************************************)
NoStream ==
  [made |-> FALSE, path |-> Root, data |-> <<>>, position |-> 0, closed |-> FALSE,
   failed |-> FALSE]

\* the field initialisers: data = new Uint8Array(), position = 0, closed = false
NewStream(p) ==
  [made |-> TRUE, path |-> p, data |-> <<>>, position |-> 0, closed |-> FALSE,
   failed |-> FALSE]

\* the constructor, had it ignored keepExistingData
constructorDropExisting(v, p, keepExistingData) ==
  {[err |-> "ok", st |-> NewStream(p)]}

\* the constructor: with keepExistingData the buffer starts as a copy of the
\* file and the cursor at its end; a missing file (ENOENT) starts it empty
constructor(v, p, keepExistingData) ==
  IF ~keepExistingData THEN {[err |-> "ok", st |-> NewStream(p)]}
  ELSE {IF r.err = "ok"
          THEN [err |-> "ok",
                st |-> [NewStream(p) EXCEPT !.data = r.data, !.position = Len(r.data)]]
        ELSE IF r.err = "ENOENT" THEN [err |-> "ok", st |-> NewStream(p)]
        ELSE [err |-> r.err, st |-> NoStream]
        : r \in readFileSync(v, p)}

\* extend, had the new array not been zeroed (an uninitialised allocation)
extendUninitialised(data, size) == data \o [i \in 1..(size - Len(data)) |-> 1]

\* `newData = new Uint8Array(size); newData.set(data)`: data, zero-extended to size
extend(data, size) == data \o Zeros(size - Len(data))

\* `data.set(bytes, offset)`: bytes copied over data[offset .. offset + len)
setAt(data, bytes, offset) ==
  [i \in 1..Len(data) |->
     IF offset < i /\ i <= offset + Len(bytes) THEN bytes[i - offset] ELSE data[i]]

\* `data.position ?? this.position` (a bare Uint8Array carries no position)
writePosition(st, hasPosition, position) ==
  IF hasPosition THEN position ELSE st.position

\* write, had it left the cursor alone when the call supplies a position
writeKeepCursor(st, bytes, hasPosition, position) ==
  IF st.closed THEN [err |-> "Stream is closed", st |-> st]
  ELSE LET wp == writePosition(st, hasPosition, position)
           requiredSize == wp + Len(bytes)
           grown == IF requiredSize > Len(st.data) THEN extend(st.data, requiredSize)
                    ELSE st.data
       IN  [err |-> "ok",
            st |-> [st EXCEPT !.data = setAt(grown, bytes, wp),
                              !.position = IF hasPosition THEN st.position
                                           ELSE wp + Len(bytes)]]

\* write: fails on a closed stream; otherwise grows the buffer to hold the
\* chunk, copies the chunk in and leaves the cursor at the chunk's end
write(st, bytes, hasPosition, position) ==
  IF st.closed THEN [err |-> "Stream is closed", st |-> st]
  ELSE LET wp == writePosition(st, hasPosition, position)
           requiredSize == wp + Len(bytes)
           grown == IF requiredSize > Len(st.data) THEN extend(st.data, requiredSize)
                    ELSE st.data
       IN  [err |-> "ok",
            st |-> [st EXCEPT !.data = setAt(grown, bytes, wp),
                              !.position = wp + Len(bytes)]]

\* seek, had it clamped the cursor to the buffer's end
seekClamped(st, position) ==
  IF st.closed THEN [err |-> "Stream is closed", st |-> st]
  ELSE [err |-> "ok",
        st |-> [st EXCEPT !.position = IF position > Len(st.data) THEN Len(st.data)
                                       ELSE position]]

\* seek: fails on a closed stream; otherwise sets the cursor
seek(st, position) ==
  IF st.closed THEN [err |-> "Stream is closed", st |-> st]
  ELSE [err |-> "ok", st |-> [st EXCEPT !.position = position]]

\* truncate, had it lacked the closed check
truncateUnchecked(st, size) ==
  LET data == IF size < Len(st.data) THEN SubSeq(st.data, 1, size)
              ELSE IF size > Len(st.data) THEN extend(st.data, size)
              ELSE st.data
  IN  [err |-> "ok",
       st |-> [st EXCEPT !.data = data,
                         !.position = IF st.position > size THEN size
                                      ELSE st.position]]

\* truncate, had it left the cursor where it was
truncateNoClamp(st, size) ==
  IF st.closed THEN [err |-> "Stream is closed", st |-> st]
  ELSE LET data == IF size < Len(st.data) THEN SubSeq(st.data, 1, size)
                   ELSE IF size > Len(st.data) THEN extend(st.data, size)
                   ELSE st.data
       IN  [err |-> "ok", st |-> [st EXCEPT !.data = data]]

\* truncate: fails on a closed stream; otherwise cuts or zero-extends the
\* buffer to size and pulls the cursor back to size if it was beyond
truncate(st, size) ==
  IF st.closed THEN [err |-> "Stream is closed", st |-> st]
  ELSE LET data == IF size < Len(st.data) THEN SubSeq(st.data, 1, size)
                   ELSE IF size > Len(st.data) THEN extend(st.data, size)
                   ELSE st.data
       IN  [err |-> "ok",
            st |-> [st EXCEPT !.data = data,
                              !.position = IF st.position > size THEN size
                                           ELSE st.position]]

\* close, had it written the buffer over the file without cutting the file
\* to the buffer's length
closeNoTruncate(v, st) ==
  IF st.closed THEN [err |-> "ok", vol |-> v, st |-> st]
  ELSE LET st1 == [st EXCEPT !.closed = TRUE]
           dir == Parent(st.path)
           m == IF dir # Root THEN mkdirSyncRecursive(v, dir)
                ELSE [err |-> "ok", vol |-> v]
           old == IF Kind(m.vol, st.path) = "file" THEN m.vol[st.path].d ELSE <<>>
           kept == IF Len(old) > Len(st.data)
                   THEN st.data \o SubSeq(old, Len(st.data) + 1, Len(old))
                   ELSE st.data
       IN  IF m.err \notin {"ok", "EEXIST"}
           THEN [err |-> m.err, vol |-> m.vol, st |-> st1]
           ELSE LET w == writeFileSync(m.vol, st.path, kept)
                IN  [err |-> w.err, vol |-> w.vol, st |-> st1]

\* close, had it lacked the early return on a closed stream
closeRepublish(v, st) ==
  LET st1 == [st EXCEPT !.closed = TRUE]
      dir == Parent(st.path)
      m == IF dir # Root THEN mkdirSyncRecursive(v, dir)
           ELSE [err |-> "ok", vol |-> v]
  IN  IF m.err \notin {"ok", "EEXIST"}
      THEN [err |-> m.err, vol |-> m.vol, st |-> st1]
      ELSE LET w == writeFileSync(m.vol, st.path, st.data)
           IN  [err |-> w.err, vol |-> w.vol, st |-> st1]

\* close, had it not made the parent directory first
closeNoMkdir(v, st) ==
  IF st.closed THEN [err |-> "ok", vol |-> v, st |-> st]
  ELSE LET st1 == [st EXCEPT !.closed = TRUE]
           w == writeFileSync(v, st.path, st.data)
       IN  [err |-> w.err, vol |-> w.vol, st |-> st1]

\* close, had it marked the stream closed only once the file was written
closeMarkAfter(v, st) ==
  IF st.closed THEN [err |-> "ok", vol |-> v, st |-> st]
  ELSE LET dir == Parent(st.path)
           m == IF dir # Root THEN mkdirSyncRecursive(v, dir)
                ELSE [err |-> "ok", vol |-> v]
       IN  IF m.err \notin {"ok", "EEXIST"}
           THEN [err |-> m.err, vol |-> m.vol, st |-> st]
           ELSE LET w == writeFileSync(m.vol, st.path, st.data)
                IN  [err |-> w.err, vol |-> w.vol,
                     st |-> [st EXCEPT !.closed = (w.err = "ok")]]

\* close: nothing on a closed stream; otherwise mark closed, make the parent
\* directory (unless the parent is the root) and write the buffer to the path
close(v, st) ==
  IF st.closed THEN [err |-> "ok", vol |-> v, st |-> st]
  ELSE LET st1 == [st EXCEPT !.closed = TRUE]
           dir == Parent(st.path)
           m == IF dir # Root THEN mkdirSyncRecursive(v, dir)
                ELSE [err |-> "ok", vol |-> v]
       IN  IF m.err \notin {"ok", "EEXIST"}
           THEN [err |-> m.err, vol |-> m.vol, st |-> [st1 EXCEPT !.failed = TRUE]]
           ELSE LET w == writeFileSync(m.vol, st.path, st.data)
                IN  [err |-> w.err, vol |-> w.vol,
                     st |-> [st1 EXCEPT !.failed = (w.err # "ok")]]

\* MemfsFileHandle.getFile: the outcomes it may have
getFile(v, p) ==
  {[res |-> IF r.err = "ENOENT" THEN "NotFoundError" ELSE r.err, data |-> r.data]
   : r \in readFileSync(v, p)}

(***************************************************************************)
(* The adapter's calls as steps.  `last` records the call and how its      *)
(* promise settled: "ok" or the error it rejected with.  The handle        *)
(* classes are exported with public constructors, so a file handle may     *)
(* name any path; a directory handle comes from createMemoryFileSystem,    *)
(* from getDirectoryHandle or from values(), and stays usable after its    *)
(* directory was removed.                                                  *)
(***************************************************************************)
Streams == {1, 2}

NoCall ==
  [op |-> "none", s |-> 0, p |-> Root, res |-> "ok", flag |-> FALSE,
   arg |-> 0, n |-> 0, len0 |-> 0]

\* a call on the directory handle of p's parent, about its entry p
DirCall(op, p, res, flag) ==
  [NoCall EXCEPT !.op = op, !.p = p, !.res = res, !.flag = flag]

\* a call on stream s, which was st0 before the call
StreamCall(op, s, st0, res, flag, arg, n) ==
  [op |-> op, s |-> s, p |-> st0.path, res |-> res, flag |-> flag,
   arg |-> arg, n |-> n, len0 |-> Len(st0.data)]

\* no enumeration yet
NoIter ==
  [op |-> "none", dir |-> Root, state |-> "idle", entries |-> <<>>, out |-> <<>>,
   res |-> "ok", vol0 |-> EmptyVolume, clean |-> TRUE,
   prev |-> [op |-> "none", dir |-> Root, state |-> "idle", out |-> <<>>,
             vol0 |-> EmptyVolume, clean |-> TRUE]]

\* the paths of the model's universe that have entries in it: the
\* directories whose handles the model has a use for
Dirs == {Parent(q) : q \in Paths \ {Root}}

\* the shell's variables and the enumeration in progress
loopVars ==
  <<pc, redirectedStdout, outcome, aborted, ctrlCHandler, redirectBase, stdoutBytes,
    pwd, iter>>

\* the arrays as objects (followed under SpecAlias only)
arrayVars == <<heap, dataRef>>

\* what the calls on streams and most calls on handles leave alone
shellVars == <<loopVars, dirHandles, arrayVars>>

\* getFileHandle, had it written the empty file whenever create is set
GetFileHandleTruncates(dir, name, create) ==
  LET p == Child(dir, name) IN
  /\ p \in Paths
  /\ dir \in dirHandles
  /\ \E stats \in statSync(vol, p) :
       IF stats = "dir"
       THEN /\ last' = DirCall("getFileHandle", p, "TypeMismatchError", create)
            /\ UNCHANGED vol
       ELSE IF stats \notin {"file", "ENOENT"}
       THEN /\ last' = DirCall("getFileHandle", p, stats, create)
            /\ UNCHANGED vol
       ELSE IF create
       THEN LET w == writeFileSync(vol, p, <<>>) IN
            /\ vol' = w.vol
            /\ last' = DirCall("getFileHandle", p, w.err, create)
       ELSE /\ last' = DirCall("getFileHandle", p,
                               IF stats = "file" THEN "ok" ELSE "NotFoundError", create)
            /\ UNCHANGED vol
  /\ UNCHANGED <<streams, shellVars>>

\* MemfsDirectoryHandle.getFileHandle(name, {create}) on the handle of dir
GetFileHandle(dir, name, create) ==
  LET p == Child(dir, name) IN
  /\ p \in Paths
  /\ dir \in dirHandles
  /\ \E stats \in statSync(vol, p) :
       IF stats = "dir"
       THEN /\ last' = DirCall("getFileHandle", p, "TypeMismatchError", create)
            /\ UNCHANGED vol
       ELSE IF stats = "file"
       THEN /\ last' = DirCall("getFileHandle", p, "ok", create)
            /\ UNCHANGED vol
       ELSE IF stats # "ENOENT"
       THEN /\ last' = DirCall("getFileHandle", p, stats, create)
            /\ UNCHANGED vol
       ELSE IF create
       THEN LET w == writeFileSync(vol, p, <<>>) IN
            /\ vol' = w.vol
            /\ last' = DirCall("getFileHandle", p, w.err, create)
       ELSE /\ last' = DirCall("getFileHandle", p, "NotFoundError", create)
            /\ UNCHANGED vol
  /\ UNCHANGED <<streams, shellVars>>

\* getDirectoryHandle, had it looked at create before the entry's kind
GetDirectoryHandleCreateFirst(dir, name, create) ==
  LET p == Child(dir, name) IN
  /\ p \in Paths
  /\ dir \in dirHandles
  /\ IF create
     THEN LET m == mkdirSyncRecursive(vol, p) IN
          /\ vol' = m.vol
          /\ last' = DirCall("getDirectoryHandle", p, m.err, create)
     ELSE /\ last' = DirCall("getDirectoryHandle", p,
                             IF Kind(vol, p) = "dir" THEN "ok"
                             ELSE IF Kind(vol, p) = "file" THEN "TypeMismatchError"
                             ELSE "NotFoundError", create)
          /\ UNCHANGED vol
  /\ dirHandles' = IF last'.res = "ok" /\ p \in Dirs THEN dirHandles \cup {p}
                   ELSE dirHandles
  /\ UNCHANGED <<streams, loopVars, arrayVars>>

\* MemfsDirectoryHandle.getDirectoryHandle(name, {create}) on the handle of dir
GetDirectoryHandle(dir, name, create) ==
  LET p == Child(dir, name) IN
  /\ p \in Paths
  /\ dir \in dirHandles
  /\ \E stats \in statSync(vol, p) :
       IF stats = "file"
       THEN /\ last' = DirCall("getDirectoryHandle", p, "TypeMismatchError", create)
            /\ UNCHANGED vol
       ELSE IF stats = "dir"
       THEN /\ last' = DirCall("getDirectoryHandle", p, "ok", create)
            /\ UNCHANGED vol
       ELSE IF stats # "ENOENT"
       THEN /\ last' = DirCall("getDirectoryHandle", p, stats, create)
            /\ UNCHANGED vol
       ELSE IF create
       THEN LET m == mkdirSyncRecursive(vol, p) IN
            /\ vol' = m.vol
            /\ last' = DirCall("getDirectoryHandle", p, m.err, create)
       ELSE /\ last' = DirCall("getDirectoryHandle", p, "NotFoundError", create)
            /\ UNCHANGED vol
  /\ dirHandles' = IF last'.res = "ok" /\ p \in Dirs THEN dirHandles \cup {p}
                   ELSE dirHandles
  /\ UNCHANGED <<streams, loopVars, arrayVars>>

\* removeEntry, had it removed a directory with rmSync whatever the option
RemoveEntryAlwaysRecursive(dir, name, recursive) ==
  LET p == Child(dir, name) IN
  /\ p \in Paths
  /\ dir \in dirHandles
  /\ \E stats \in statSync(vol, p) :
       LET r == IF stats = "ENOENT" THEN [err |-> "NotFoundError", vol |-> vol]
                ELSE IF stats = "ENOTDIR" THEN [err |-> stats, vol |-> vol]
                ELSE IF stats = "dir" THEN rmSyncRecursive(vol, p)
                ELSE unlinkSync(vol, p)
       IN  /\ vol' = r.vol
           /\ last' = DirCall("removeEntry", p, r.err, recursive)
  /\ UNCHANGED <<streams, shellVars>>

\* MemfsDirectoryHandle.removeEntry(name, {recursive}) on the handle of dir
RemoveEntry(dir, name, recursive) ==
  LET p == Child(dir, name) IN
  /\ p \in Paths
  /\ dir \in dirHandles
  /\ \E stats \in statSync(vol, p) :
       LET r == IF stats = "ENOENT" THEN [err |-> "NotFoundError", vol |-> vol]
                ELSE IF stats = "ENOTDIR" THEN [err |-> stats, vol |-> vol]
                ELSE IF stats = "dir"
                THEN IF recursive THEN rmSyncRecursive(vol, p)
                     ELSE LET d == rmdirSync(vol, p)
                          IN  [err |-> IF d.err = "ENOTEMPTY"
                                       THEN "InvalidModificationError" ELSE d.err,
                               vol |-> d.vol]
                ELSE unlinkSync(vol, p)
       IN  /\ vol' = r.vol
           /\ last' = DirCall("removeEntry", p, r.err, recursive)
  /\ UNCHANGED <<streams, shellVars>>

\* MemfsFileHandle.createWritable({keepExistingData}) on a handle of p: a new
\* stream object, named s (a name whose earlier stream was closed is reused)
CreateWritable(s, p, keepExistingData) ==
  /\ ~streams[s].made \/ streams[s].closed
  /\ \E c \in constructor(vol, p, keepExistingData) :
       /\ streams' = [streams EXCEPT ![s] = c.st]
       /\ last' = [NoCall EXCEPT !.op = "createWritable", !.s = s, !.p = p,
                                 !.res = c.err, !.flag = keepExistingData]
  /\ UNCHANGED <<vol, shellVars>>

\* stream.write(bytes) and stream.write({type: 'write', position, data: bytes})
Write(s, bytes, hasPosition, position) ==
  LET st == streams[s]
      r == write(st, bytes, hasPosition, position)
  IN
  /\ st.made
  /\ streams' = [streams EXCEPT ![s] = r.st]
  /\ last' = StreamCall("write", s, st, r.err, hasPosition,
                        writePosition(st, hasPosition, position), Len(bytes))
  /\ UNCHANGED <<vol, shellVars>>

\* stream.seek(position)
Seek(s, position) ==
  LET st == streams[s]
      r == seek(st, position)
  IN
  /\ st.made
  /\ streams' = [streams EXCEPT ![s] = r.st]
  /\ last' = StreamCall("seek", s, st, r.err, FALSE, position, 0)
  /\ UNCHANGED <<vol, shellVars>>

\* stream.truncate(size)
Truncate(s, size) ==
  LET st == streams[s]
      r == truncate(st, size)
  IN
  /\ st.made
  /\ streams' = [streams EXCEPT ![s] = r.st]
  /\ last' = StreamCall("truncate", s, st, r.err, FALSE, size, 0)
  /\ UNCHANGED <<vol, shellVars>>

\* the components of p's parent directory that are not directories
MissingDirs(v, p) == {q \in Steps(Parent(p)) : Kind(v, q) # "dir"}

\* stream.close()
Close(s) ==
  LET st == streams[s]
      r == close(vol, st)
  IN
  /\ st.made
  /\ streams' = [streams EXCEPT ![s] = r.st]
  /\ vol' = r.vol
  /\ last' = StreamCall("close", s, st, r.err, st.closed,
                        IF st.closed THEN 0 ELSE Cardinality(MissingDirs(vol, st.path)), 0)
  /\ UNCHANGED shellVars

\* a write call's inputs, kept within a buffer of at most cap bytes
WriteFits(s, bytes, hasPosition, position, cap) ==
  /\ hasPosition \/ position = 0
  /\ writePosition(streams[s], hasPosition, position) + Len(bytes) <= cap

(***************************************************************************)
(* The streams' buffers as objects.  A Uint8Array has an identity: two     *)
(* references to one array see each other's writes.  `heap` holds the      *)
(* bytes of each array and `dataRef` the array a stream's `data` field     *)
(* refers to.  Where the arrays are followed (SpecAlias), a stream's       *)
(* record shows in `data` what its array holds now, whoever wrote it.      *)
(* The cursor is a number, and the volume's files are values: close hands  *)
(* the volume `Buffer.from(this.data)`, a copy, and the constructor keeps  *)
(* `new Uint8Array(existing)`, a copy of what readFileSync returned, so no *)
(* stream holds an array the volume holds.                                 *)
(***************************************************************************)
\* the caller's arrays, which it passes to write as chunks
ChunkIds == {1, 2}

\* the arrays the streams allocate
OwnIds == {3, 4}

ArrayIds == ChunkIds \cup OwnIds

\* what the caller's arrays hold: one byte each, a zero and a non-zero one
ChunkBytes(a) == IF a = 1 THEN <<0>> ELSE <<1>>

\* `new Uint8Array(...)` in a method of stream s: an array no other live
\* object refers to.  Which identity it gets cannot be observed; the one of
\* s's number is taken when it is free, so that equal heaps are equal states.
Fresh(refs, s) ==
  LET free == {a \in OwnIds : \A t \in Streams \ {s} : refs[t] # a}
  IN  IF s + 2 \in free THEN s + 2 ELSE CHOOSE a \in free : TRUE

\* the heap once the arrays no stream refers to are collected
Collect(h, refs) ==
  [a \in ArrayIds |->
     IF a \in OwnIds /\ (\A t \in Streams : refs[t] # a) THEN <<>> ELSE h[a]]

\* the stream records, each showing what its array holds
Sync(strs, h, refs) ==
  [t \in Streams |->
     IF refs[t] = 0 THEN strs[t] ELSE [strs[t] EXCEPT !.data = h[refs[t]]]]

\* the constructor's arrays: the field initialiser `new Uint8Array()`, and
\* with keepExistingData `new Uint8Array(existing)`, a copy of the file's
\* bytes in an array of its own; c is the constructor's outcome
constructorArrays(h, c, fresh) ==
  IF c.err = "ok" THEN [heap |-> [h EXCEPT ![fresh] = c.st.data], ref |-> fresh]
  ELSE [heap |-> h, ref |-> 0]

\* write's arrays, had it taken the caller's array as its buffer while it
\* had no bytes of its own yet, instead of copying the chunk in
writeArraysAdopt(h, r, st, chunk, hasPosition, position, fresh) ==
  IF st.closed THEN [heap |-> h, ref |-> r]
  ELSE LET wp == writePosition(st, hasPosition, position)
           requiredSize == wp + Len(h[chunk])
           grow == requiredSize > Len(h[r])
           r1 == IF grow THEN fresh ELSE r
           h1 == IF grow THEN [h EXCEPT ![fresh] = extend(h[r], requiredSize)] ELSE h
       IN  IF wp = 0 /\ Len(h[r]) = 0 THEN [heap |-> h, ref |-> chunk]
           ELSE [heap |-> [h1 EXCEPT ![r1] = setAt(h1[r1], h1[chunk], wp)],
                 ref |-> r1]

\* write's arrays: when the chunk does not fit, `newData = new
\* Uint8Array(requiredSize); newData.set(this.data); this.data = newData`,
\* a new array; then `this.data.set(writeData, writePosition)` copies the
\* chunk's bytes into the stream's array in place
writeArrays(h, r, st, chunk, hasPosition, position, fresh) ==
  IF st.closed THEN [heap |-> h, ref |-> r]
  ELSE LET wp == writePosition(st, hasPosition, position)
           requiredSize == wp + Len(h[chunk])
           grow == requiredSize > Len(h[r])
           r1 == IF grow THEN fresh ELSE r
           h1 == IF grow THEN [h EXCEPT ![fresh] = extend(h[r], requiredSize)] ELSE h
       IN  [heap |-> [h1 EXCEPT ![r1] = setAt(h1[r1], h1[chunk], wp)],
            ref |-> r1]

\* truncate's arrays: `this.data.slice(0, size)` and `new Uint8Array(size)`
\* are new arrays; a size equal to the length leaves the array
truncateArrays(h, r, st, size, fresh) ==
  IF st.closed \/ size = Len(h[r]) THEN [heap |-> h, ref |-> r]
  ELSE IF size < Len(h[r])
    THEN [heap |-> [h EXCEPT ![fresh] = SubSeq(h[r], 1, size)], ref |-> fresh]
  ELSE [heap |-> [h EXCEPT ![fresh] = extend(h[r], size)], ref |-> fresh]

\* createWritable, with the new stream's array
CreateWritableArray(s, p, keepExistingData) ==
  /\ ~streams[s].made \/ streams[s].closed
  /\ \E c \in constructor(vol, p, keepExistingData) :
       LET a == constructorArrays(heap, c, Fresh(dataRef, s))
       IN  /\ dataRef' = [dataRef EXCEPT ![s] = a.ref]
           /\ heap' = Collect(a.heap, dataRef')
           /\ streams' = Sync([streams EXCEPT ![s] = c.st], heap', dataRef')
           /\ last' = [NoCall EXCEPT !.op = "createWritable", !.s = s, !.p = p,
                                     !.res = c.err, !.flag = keepExistingData]
  /\ UNCHANGED <<vol, loopVars, dirHandles>>

\* stream.write of the caller's array chunk, bare or with a position: the
\* outcome and the cursor are write's, the bytes are the arrays'
WriteArray(s, chunk, hasPosition, position) ==
  LET st == streams[s]
      r == write(st, heap[chunk], hasPosition, position)
      a == writeArrays(heap, dataRef[s], st, chunk, hasPosition, position,
                       Fresh(dataRef, s))
  IN
  /\ st.made
  /\ dataRef' = [dataRef EXCEPT ![s] = a.ref]
  /\ heap' = Collect(a.heap, dataRef')
  /\ streams' = Sync([streams EXCEPT ![s] = r.st], heap', dataRef')
  /\ last' = StreamCall("write", s, st, r.err, hasPosition,
                        writePosition(st, hasPosition, position), Len(heap[chunk]))
  /\ UNCHANGED <<vol, loopVars, dirHandles>>

\* stream.truncate(size), with the arrays
TruncateArray(s, size) ==
  LET st == streams[s]
      r == truncate(st, size)
      a == truncateArrays(heap, dataRef[s], st, size, Fresh(dataRef, s))
  IN
  /\ st.made
  /\ dataRef' = [dataRef EXCEPT ![s] = a.ref]
  /\ heap' = Collect(a.heap, dataRef')
  /\ streams' = Sync([streams EXCEPT ![s] = r.st], heap', dataRef')
  /\ last' = StreamCall("truncate", s, st, r.err, FALSE, size, 0)
  /\ UNCHANGED <<vol, loopVars, dirHandles>>

(***************************************************************************)
(* Spec: one stream at a time on /sandbox/out, driven by any calls.        *)
(***************************************************************************)
Init ==
  /\ vol = createMemoryFileSystem
  /\ streams = [s \in Streams |-> NoStream]
  /\ last = NoCall
  /\ pc = "prompt"
  /\ redirectedStdout = 0
  /\ outcome = "none"
  /\ aborted = FALSE
  /\ ctrlCHandler = FALSE
  /\ redirectBase = <<>>
  /\ stdoutBytes = <<>>
  /\ pwd = Sandbox
  /\ iter = NoIter
  /\ dirHandles = {Root, Sandbox, Tmp}
  /\ heap = [a \in ArrayIds |-> IF a \in ChunkIds THEN ChunkBytes(a) ELSE <<>>]
  /\ dataRef = [s \in Streams |-> 0]

Next ==
  \/ \E create \in BOOLEAN : GetFileHandle(Sandbox, "out", create)
  \/ RemoveEntry(Sandbox, "out", FALSE)
  \/ \E keep \in BOOLEAN : CreateWritable(1, SandboxOut, keep)
  \/ \E bytes \in SeqsUpTo(MaxWrite), hasPosition \in BOOLEAN, position \in 0..MaxLen :
       /\ WriteFits(1, bytes, hasPosition, position, MaxLen)
       /\ Write(1, bytes, hasPosition, position)
  \/ \E position \in 0..MaxLen : Seek(1, position)
  \/ \E size \in 0..MaxLen : Truncate(1, size)
  \/ Close(1)

Spec == Init /\ [][Next]_vars

(***************************************************************************)
(* SpecTwo: two streams open at the same time, the first on /sandbox/out,  *)
(* the second on /sandbox/out or on /out, with the files created and       *)
(* removed under them.                                                     *)
(***************************************************************************)
NextTwo ==
  \/ GetFileHandle(Sandbox, "out", TRUE)
  \/ RemoveEntry(Sandbox, "out", FALSE)
  \/ \E keep \in BOOLEAN : CreateWritable(1, SandboxOut, keep)
  \/ \E p \in {SandboxOut, RootOut}, keep \in BOOLEAN : CreateWritable(2, p, keep)
  \/ \E s \in Streams, bytes \in SeqsUpTo(1), hasPosition \in BOOLEAN,
        position \in 0..TwoMaxLen :
       /\ WriteFits(s, bytes, hasPosition, position, TwoMaxLen)
       /\ Write(s, bytes, hasPosition, position)
  \/ \E s \in Streams, position \in 0..TwoMaxLen : Seek(s, position)
  \/ \E s \in Streams, size \in 0..TwoMaxLen : Truncate(s, size)
  \/ \E s \in Streams : Close(s)

SpecTwo == Init /\ [][NextTwo]_vars

(***************************************************************************)
(* SpecAlias: two streams side by side with their arrays followed, each on *)
(* /sandbox/out or on /out, made again after a close so that a stream      *)
(* opened with keepExistingData starts from the bytes another published.   *)
(* seek touches no array and close reads the stream's array into a Buffer  *)
(* of its own (`Buffer.from(this.data)`), so the steps Seek and Close      *)
(* serve as they are.                                                      *)
(***************************************************************************)
NextAlias ==
  \/ \E s \in Streams, p \in {SandboxOut, RootOut}, keep \in BOOLEAN :
       CreateWritableArray(s, p, keep)
  \/ \E s \in Streams, chunk \in ChunkIds, hasPosition \in BOOLEAN,
        position \in 0..TwoMaxLen :
       /\ WriteFits(s, heap[chunk], hasPosition, position, TwoMaxLen)
       /\ WriteArray(s, chunk, hasPosition, position)
  \/ \E s \in Streams, position \in 0..TwoMaxLen : Seek(s, position)
  \/ \E s \in Streams, size \in 0..TwoMaxLen : TruncateArray(s, size)
  \/ \E s \in Streams : Close(s)

SpecAlias == Init /\ [][NextAlias]_vars

(***************************************************************************)
(* SpecTree: one stream on /sandbox/d/out while the directories above it   *)
(* are removed, made again or replaced by files, and the path itself by a  *)
(* directory.                                                              *)
(***************************************************************************)
TreePaths == {Sandbox, SandboxD, SandboxDOut}

NextTree ==
  \/ \E p \in {SandboxD, SandboxDOut}, create \in BOOLEAN :
       GetFileHandle(Parent(p), BaseName(p), create)
  \/ \E p \in TreePaths, create \in BOOLEAN :
       GetDirectoryHandle(Parent(p), BaseName(p), create)
  \/ \E p \in TreePaths, recursive \in BOOLEAN :
       RemoveEntry(Parent(p), BaseName(p), recursive)
  \/ \E keep \in BOOLEAN : CreateWritable(1, SandboxDOut, keep)
  \/ \E bytes \in SeqsUpTo(1) :
       /\ WriteFits(1, bytes, FALSE, 0, FsMaxLen)
       /\ Write(1, bytes, FALSE, 0)
  \/ Close(1)

SpecTree == Init /\ [][NextTree]_vars

(***************************************************************************)
(* The shell's command loop (src/unnamed/part_001, lines 173-277), from    *)
(* the redirect's set-up to the finally block.  The working directory is   *)
(* /sandbox, and the command's stdout may be redirected to /sandbox/out.   *)
(* What the guest does while it runs comes through the bindings, which     *)
(* call the adapter: it writes chunks to its stdout and makes and removes  *)
(* entries of its preopened /sandbox.                                      *)
(***************************************************************************)
\* preOpen.getFileOrDir(relativePath, FileOrDir.File, OpenFlags.Create): walks
\* to the parent directory and takes getFileHandle(name, {create: true})
getFileOrDir(v, p) ==
  IF Kind(v, Parent(p)) # "dir"
  THEN [err |-> IF UnderFile(v, p) THEN "TypeMismatchError" ELSE "NotFoundError",
        vol |-> v]
  ELSE IF Kind(v, p) = "dir" THEN [err |-> "TypeMismatchError", vol |-> v]
  ELSE IF Kind(v, p) = "file" THEN [err |-> "ok", vol |-> v]
  ELSE writeFileSync(v, p, <<>>)

\* `handle.createWritable()` for `>`; for `>>` `handle.createWritable({
\* keepExistingData: true })` and then `seek((await handle.getFile()).size)`
redirectStream(v, p, append) ==
  {IF c.err = "ok" /\ append
     THEN [c EXCEPT !.st = seek(c.st, Len((CHOOSE g \in getFile(v, p) : TRUE).data)).st]
   ELSE c
   : c \in constructor(v, p, append)}

\* One iteration of the loop up to `await ... run(...)`: the redirect is set
\* up (a failure is thrown to the loop's catch, which prints it and goes back
\* to the prompt), the abort controller is made and the Ctrl+C handler set.
StartCommand(redirect, p) ==
  /\ pc = "prompt"
  /\ UNCHANGED <<pwd, iter,
                 dirHandles, arrayVars>>
  /\ IF redirect = "none"
     THEN /\ redirectedStdout' = 0
          /\ redirectBase' = <<>>
          /\ pc' = "run"
          /\ aborted' = FALSE
          /\ ctrlCHandler' = TRUE
          /\ stdoutBytes' = <<>>
          /\ outcome' = "none"
          /\ UNCHANGED <<vol, streams, last>>
     ELSE LET h == getFileOrDir(vol, p) IN
          IF h.err # "ok"
          THEN /\ vol' = h.vol
               /\ last' = DirCall("getFileOrDir", p, h.err, TRUE)
               /\ UNCHANGED <<streams, shellVars>>
          ELSE \E c \in redirectStream(h.vol, p, redirect = ">>") :
                 /\ vol' = h.vol
                 /\ last' = [NoCall EXCEPT !.op = "createWritable", !.s = 1, !.p = p,
                                           !.res = c.err, !.flag = (redirect = ">>")]
                 /\ IF c.err # "ok"
                    THEN UNCHANGED <<streams, shellVars>>
                    ELSE /\ streams' = [streams EXCEPT ![1] = c.st]
                         /\ redirectedStdout' = 1
                         /\ redirectBase' = IF redirect = ">>" THEN h.vol[p].d ELSE <<>>
                         /\ pc' = "run"
                         /\ aborted' = FALSE
                         /\ ctrlCHandler' = TRUE
                         /\ stdoutBytes' = <<>>
                         /\ outcome' = "none"

\* the guest writes a chunk to its stdout: `redirectedStdout.write(chunk)`
GuestWrite(bytes) ==
  LET st == streams[redirectedStdout]
      r == write(st, bytes, FALSE, 0)
  IN
  /\ pc = "run"
  /\ redirectedStdout # 0
  /\ streams' = [streams EXCEPT ![redirectedStdout] = r.st]
  /\ last' = StreamCall("write", redirectedStdout, st, r.err, FALSE, st.position,
                        Len(bytes))
  /\ stdoutBytes' = stdoutBytes \o bytes
  /\ UNCHANGED <<vol, pc, redirectedStdout, outcome, aborted, ctrlCHandler, redirectBase,
                 pwd, iter,
                 dirHandles, arrayVars>>

\* the guest unlinks or removes /sandbox/out, makes it a directory, or
\* creates it as a file
GuestFs ==
  /\ pc = "run"
  /\ \/ RemoveEntry(Sandbox, "out", FALSE)
     \/ GetDirectoryHandle(Sandbox, "out", TRUE)
     \/ GetFileHandle(Sandbox, "out", TRUE)

\* Ctrl+C while the command runs: `abortController.abort()`
CtrlC ==
  /\ pc = "run"
  /\ ctrlCHandler
  /\ aborted' = TRUE
  /\ UNCHANGED <<vol, streams, last, pc, redirectedStdout, outcome, ctrlCHandler,
                 redirectBase, stdoutBytes, pwd, iter,
                 dirHandles, arrayVars>>

\* `await new Bindings({...}).run(...)` settles: with exit code 0, with another
\* exit code, with 130 once the abort was seen, or by throwing (a trap)
RunEnds(how) ==
  /\ pc = "run"
  /\ how = "cancelled" => aborted
  /\ outcome' = how
  /\ pc' = "finally"
  /\ UNCHANGED <<vol, streams, last, redirectedStdout, aborted, ctrlCHandler,
                 redirectBase, stdoutBytes, pwd, iter,
                 dirHandles, arrayVars>>

\* the finally block, had it not disposed the Ctrl+C handler
FinallyKeepsHandler ==
  /\ pc = "finally"
  /\ pc' = "prompt"
  /\ IF redirectedStdout # 0
     THEN LET st == streams[redirectedStdout]
              r == close(vol, st)
          IN  /\ streams' = [streams EXCEPT ![redirectedStdout] = r.st]
              /\ vol' = r.vol
              /\ last' = StreamCall("close", redirectedStdout, st, r.err, st.closed,
                                    Cardinality(MissingDirs(vol, st.path)), 0)
     ELSE UNCHANGED <<vol, streams, last>>
  /\ UNCHANGED <<redirectedStdout, outcome, aborted, ctrlCHandler, redirectBase,
                 stdoutBytes, pwd, iter,
                 dirHandles, arrayVars>>

\* the finally block, had the close stood in the try block after the run (a
\* run that throws then skips it)
FinallyInTry ==
  /\ pc = "finally"
  /\ ctrlCHandler' = FALSE
  /\ pc' = "prompt"
  /\ IF redirectedStdout # 0 /\ outcome # "trap"
     THEN LET st == streams[redirectedStdout]
              r == close(vol, st)
          IN  /\ streams' = [streams EXCEPT ![redirectedStdout] = r.st]
              /\ vol' = r.vol
              /\ last' = StreamCall("close", redirectedStdout, st, r.err, st.closed,
                                    Cardinality(MissingDirs(vol, st.path)), 0)
     ELSE UNCHANGED <<vol, streams, last>>
  /\ UNCHANGED <<redirectedStdout, outcome, aborted, redirectBase, stdoutBytes, pwd, iter,
                 dirHandles, arrayVars>>

\* the finally block: the Ctrl+C handler is disposed and the redirect stream,
\* if any, is closed; what the run or the close threw is printed by the catch
Finally ==
  /\ pc = "finally"
  /\ ctrlCHandler' = FALSE
  /\ pc' = "prompt"
  /\ IF redirectedStdout # 0
     THEN LET st == streams[redirectedStdout]
              r == close(vol, st)
          IN  /\ streams' = [streams EXCEPT ![redirectedStdout] = r.st]
              /\ vol' = r.vol
              /\ last' = StreamCall("close", redirectedStdout, st, r.err, st.closed,
                                    Cardinality(MissingDirs(vol, st.path)), 0)
     ELSE UNCHANGED <<vol, streams, last>>
  /\ UNCHANGED <<redirectedStdout, outcome, aborted, redirectBase, stdoutBytes, pwd, iter,
                 dirHandles, arrayVars>>

NextShell ==
  \/ \E redirect \in {"none", ">", ">>"} : StartCommand(redirect, SandboxOut)
  \/ \E bytes \in SeqsUpTo(MaxWrite) :
       /\ Len(streams[1].data) + Len(bytes) <= ShellMaxLen
       /\ GuestWrite(bytes)
  \/ GuestFs
  \/ CtrlC
  \/ \E how \in {"exit0", "exitN", "cancelled", "trap"} : RunEnds(how)
  \/ Finally

\* The finally block runs once the awaited run has settled.
SpecShell == Init /\ [][NextShell]_vars /\ WF_vars(Finally)

(***************************************************************************)
(* SpecCd: the shell's cd (src/unnamed/part_001, lines 201-222) at the     *)
(* prompt, while commands make, remove and replace /sandbox/d and make and  *)
(* remove the file /sandbox/out.                                           *)
(***************************************************************************)
\* the preopened directories: preOpens['/sandbox'] and preOpens['/tmp']
preOpens == {Sandbox, Tmp}

\* `new URL(dest, `file://${pwd}/`).pathname`, less a trailing slash: the
\* components applied to the base in turn, '.' staying, '..' going up (and
\* staying at the root)
RECURSIVE Normalize(_, _)
Normalize(base, comps) ==
  IF comps = <<>> THEN base
  ELSE LET c == Head(comps)
           b == IF c = "." THEN base
                ELSE IF c = ".." THEN (IF base = Root THEN Root ELSE Parent(base))
                ELSE Append(base, c)
       IN  Normalize(b, Tail(comps))

\* an argument of cd: absolute or relative, and its components
resolve(wd, arg) == Normalize(IF arg.abs THEN Root ELSE wd, arg.comps)

\* openFiles.findRelPath(dest): the preopen that is the longest prefix of dest
\* (none: the call throws)
findRelPath(dest) == {pre \in preOpens : IsPrefix(pre, dest)}

\* preOpen.getFileOrDir(relativePath, FileOrDir.Dir, OpenFlags.Directory): the
\* preopen itself for '.', otherwise a walk down the components
getDir(v, pre, dest) ==
  IF dest = pre THEN "ok"
  ELSE IF Kind(v, dest) = "dir" THEN "ok"
  ELSE IF Kind(v, dest) = "file" \/ UnderFile(v, dest) THEN "TypeMismatchError"
  ELSE "NotFoundError"

\* how the resolution of dest ends
cdResult(v, dest) ==
  IF findRelPath(dest) = {} THEN "NOTCAPABLE"
  ELSE getDir(v, CHOOSE pre \in findRelPath(dest) : TRUE, dest)

\* cd, had it set the working directory before resolving it
CdAssignFirst(arg) ==
  LET dest == resolve(pwd, arg) IN
  /\ pc = "prompt"
  /\ dest \in Paths
  /\ last' = DirCall("cd", dest, cdResult(vol, dest), arg.abs)
  /\ pwd' = dest
  /\ UNCHANGED <<vol, streams, pc, redirectedStdout, outcome, aborted, ctrlCHandler,
                 redirectBase, stdoutBytes, iter,
                 dirHandles, arrayVars>>

\* `cd dest` at the prompt: pwd is set once the resolution has not thrown; a
\* throw goes to the loop's catch, which prints it
Cd(arg) ==
  LET dest == resolve(pwd, arg)
      res == cdResult(vol, dest)
  IN
  /\ pc = "prompt"
  /\ dest \in Paths
  /\ last' = DirCall("cd", dest, res, arg.abs)
  /\ pwd' = IF res = "ok" THEN dest ELSE pwd
  /\ UNCHANGED <<vol, streams, pc, redirectedStdout, outcome, aborted, ctrlCHandler,
                 redirectBase, stdoutBytes, iter,
                 dirHandles, arrayVars>>

\* the arguments tried: d, notadir, out, ., .., ../tmp, ../.., /, /tmp,
\* /sandbox/d, /sandbox/../.. and /sandbox/d/..
CdArgs ==
  {[abs |-> FALSE, comps |-> c] :
     c \in {<<"d">>, <<"notadir">>, <<"out">>, <<".">>, <<"..">>, <<"..", "tmp">>,
            <<"..", "..">>}}
  \cup
  {[abs |-> TRUE, comps |-> c] :
     c \in {<<>>, <<"tmp">>, <<"sandbox", "d">>, <<"sandbox", "..", "..">>,
            <<"sandbox", "d", "..">>}}

NextCd ==
  \/ \E arg \in CdArgs : Cd(arg)
  \/ \E create \in BOOLEAN : GetDirectoryHandle(Sandbox, "d", create)
  \/ \E create \in BOOLEAN : GetFileHandle(Sandbox, "d", create)
  \/ \E recursive \in BOOLEAN : RemoveEntry(Sandbox, "d", recursive)
  \/ GetFileHandle(SandboxD, "out", TRUE)
  \/ GetFileHandle(Sandbox, "out", TRUE)
  \/ RemoveEntry(Sandbox, "out", FALSE)

SpecCd == Init /\ [][NextCd]_vars

(***************************************************************************)
(* SpecEnum: values() and keys() of the handles of /sandbox and            *)
(* /sandbox/d, one next() at a time, while entries are made and removed.   *)
(* The generator reads the directory at its first next() and stats each    *)
(* entry as it comes to it.  `iter` holds the running enumeration: what    *)
(* readdirSync returned, what was yielded so far, the volume at its start  *)
(* and whether the volume was that one at each of its steps; and the same  *)
(* of the enumeration completed just before it.                            *)
(***************************************************************************)
\* `catch (err) { if (err.code === 'ENOENT') throw NotFoundError; throw err }`
enumError(code) == IF code = "ENOENT" THEN "NotFoundError" ELSE code

\* the loop body of values(), had it yielded a file handle for every entry
yieldEntryAsFile(it, v) ==
  LET name == it.entries[Len(it.out) + 1] IN
  {[it EXCEPT !.out = Append(it.out, [name |-> name,
                                       kind |-> IF it.op = "values" THEN "file"
                                                ELSE "name"])]}

\* the loop body for the next entry: values() stats it and yields a directory
\* handle or a file handle; keys() yields the name
yieldEntry(it, v) ==
  LET name == it.entries[Len(it.out) + 1] IN
  IF it.op = "keys"
  THEN {[it EXCEPT !.out = Append(it.out, [name |-> name, kind |-> "name"])]}
  ELSE {IF stats \in {"dir", "file"}
          THEN [it EXCEPT !.out = Append(it.out, [name |-> name, kind |-> stats])]
        ELSE [it EXCEPT !.state = "failed", !.res = enumError(stats)]
        : stats \in statSync(v, Child(it.dir, name))}

\* the generator resumed: the next entry if there is one, else the end
resume(it, v) ==
  IF Len(it.out) = Len(it.entries) THEN {[it EXCEPT !.state = "done"]}
  ELSE yieldEntry(it, v)

\* the directory handles the caller holds once the generator has gone from
\* it0 to it1: values() hands it `new MemfsDirectoryHandle(volume, entryPath)`
\* for an entry that is a directory
heldAfter(held, it0, it1) ==
  IF Len(it1.out) > Len(it0.out) /\ it1.out[Len(it1.out)].kind = "dir"
  THEN held \cup ({Child(it1.dir, it1.out[Len(it1.out)].name)} \cap Dirs)
  ELSE held

\* the first next() of `dir.values()` or `dir.keys()`
EnumFirst(op, dir) ==
  /\ dir \in dirHandles
  /\ \E r \in readdirSync(vol, dir) :
       LET prev == IF iter.state = "done"
                   THEN [op |-> iter.op, dir |-> iter.dir, state |-> "done",
                         out |-> iter.out, vol0 |-> iter.vol0, clean |-> iter.clean]
                   ELSE NoIter.prev
           it == [op |-> op, dir |-> dir, state |-> "running", entries |-> r.names,
                  out |-> <<>>, res |-> "ok", vol0 |-> vol, clean |-> TRUE,
                  prev |-> prev]
       IN  /\ IF r.err # "ok"
               THEN iter' = [it EXCEPT !.state = "failed", !.res = enumError(r.err)]
               ELSE iter' \in resume(it, vol)
           /\ dirHandles' = heldAfter(dirHandles, it, iter')
  /\ UNCHANGED <<vol, streams, last, pc, redirectedStdout, outcome, aborted,
                 ctrlCHandler, redirectBase, stdoutBytes, pwd, arrayVars>>

\* a later next() of the running generator
EnumNext ==
  /\ iter.state = "running"
  /\ iter' \in resume([iter EXCEPT !.clean = iter.clean /\ vol = iter.vol0], vol)
  /\ dirHandles' = heldAfter(dirHandles, iter, iter')
  /\ UNCHANGED <<vol, streams, last, pc, redirectedStdout, outcome, aborted,
                 ctrlCHandler, redirectBase, stdoutBytes, pwd, arrayVars>>

NextEnum ==
  \/ \E op \in {"values", "keys"}, dir \in {Sandbox, SandboxD} : EnumFirst(op, dir)
  \/ EnumNext
  \/ GetDirectoryHandle(Sandbox, "d", TRUE)
  \/ \E p \in {SandboxD, SandboxDOut} : GetFileHandle(Parent(p), BaseName(p), TRUE)
  \/ \E p \in {SandboxD, SandboxDOut} : RemoveEntry(Parent(p), BaseName(p), FALSE)

SpecEnum == Init /\ [][NextEnum]_vars

(***************************************************************************)
(* SpecCancel: commands run one after the other, with Ctrl+C pressed while *)
(* one runs and at the prompt between them.                                *)
(***************************************************************************)
\* Ctrl+C at the prompt: the terminal hands the key to its onData listeners,
\* local-echo's, which drops the line being typed, and any Ctrl+C handler
\* still registered, which aborts its command's controller
CtrlCAtPrompt ==
  /\ pc = "prompt"
  /\ aborted' = (aborted \/ ctrlCHandler)
  /\ last' = [NoCall EXCEPT !.op = "ctrlC"]
  /\ UNCHANGED <<vol, streams, pc, redirectedStdout, outcome, ctrlCHandler,
                 redirectBase, stdoutBytes, pwd, iter,
                 dirHandles, arrayVars>>

NextCancel ==
  \/ \E redirect \in {"none", ">"} : StartCommand(redirect, SandboxOut)
  \/ \E bytes \in SeqsUpTo(1) :
       /\ Len(streams[1].data) + Len(bytes) <= FsMaxLen
       /\ GuestWrite(bytes)
  \/ CtrlC
  \/ CtrlCAtPrompt
  \/ \E how \in {"exit0", "exitN", "cancelled", "trap"} : RunEnds(how)
  \/ Finally

SpecCancel == Init /\ [][NextCancel]_vars

(***************************************************************************)
(* SpecFail: one stream on /sandbox/out or /sandbox/d/out, driven by any   *)
(* calls, while /sandbox/out is made a directory and /sandbox/d a file, so *)
(* that close can throw.                                                   *)
(***************************************************************************)
NextFail ==
  \/ GetDirectoryHandle(Sandbox, "out", TRUE)
  \/ GetFileHandle(Sandbox, "d", TRUE)
  \/ \E p \in {SandboxOut, SandboxD} : RemoveEntry(Parent(p), BaseName(p), TRUE)
  \/ \E p \in {SandboxOut, SandboxDOut}, keep \in BOOLEAN : CreateWritable(1, p, keep)
  \/ \E bytes \in SeqsUpTo(1), hasPosition \in BOOLEAN, position \in 0..FsMaxLen :
       /\ WriteFits(1, bytes, hasPosition, position, FsMaxLen)
       /\ Write(1, bytes, hasPosition, position)
  \/ \E position \in 0..FsMaxLen : Seek(1, position)
  \/ \E size \in 0..FsMaxLen : Truncate(1, size)
  \/ Close(1)

SpecFail == Init /\ [][NextFail]_vars

(***************************************************************************)
(* Properties of one stream (checked under Spec).                          *)
(***************************************************************************)
\* the call just made was op, on stream s
Called(s, op) == last'.s = s /\ last'.op = op

\* C1: a stream publishes atomically.  Creating a stream and writing,
\* seeking or truncating it leave the volume as it was, so getFile on the
\* stream's path keeps returning what it returned before; a first close that
\* succeeds leaves getFile on the path returning exactly the stream's buffer.
C1_AtomicPublish ==
  [][\A s \in Streams :
       /\ (Called(s, "write") \/ Called(s, "seek") \/ Called(s, "truncate"))
            => /\ vol' = vol
               /\ getFile(vol', streams[s].path) = getFile(vol, streams[s].path)
       /\ Called(s, "createWritable")
            => /\ vol' = vol
               /\ getFile(vol', last'.p) = getFile(vol, last'.p)
       /\ (Called(s, "close") /\ ~streams[s].closed /\ last'.res = "ok")
            => getFile(vol', streams[s].path)
                 = {[res |-> "ok", data |-> streams[s].data]}
    ]_vars

\* C1 happens: a first close has just published a non-empty buffer
C1_Witness ==
  /\ last.op = "close" /\ last.res = "ok" /\ ~last.flag
  /\ Len(streams[last.s].data) = 2
  /\ vol[last.p] = FileNode(streams[last.s].data)

\* C3: on a closed stream write, seek and truncate fail, and the failing call
\* changes neither the stream's buffer and cursor nor the volume.
C3_ClosedStreamRejects ==
  [][\A s \in Streams :
       ((Called(s, "write") \/ Called(s, "seek") \/ Called(s, "truncate"))
          /\ streams[s].closed)
       => /\ last'.res = "Stream is closed"
          /\ streams' = streams
          /\ vol' = vol
    ]_vars

\* C3 happens: a truncate to less than the buffer has just failed on a closed stream
C3_Witness ==
  /\ last.op = "truncate" /\ last.res = "Stream is closed"
  /\ streams[last.s].closed
  /\ last.arg < Len(streams[last.s].data)

\* C5: a write of n bytes at position p on an open stream leaves a buffer of
\* length max(old length, p + n) that holds the written bytes at [p, p + n),
\* the old bytes everywhere else below the old length, and zeros between the
\* old length and p.
C5_WritePost(old, new, bytes, p) ==
  /\ Len(new) = Max(Len(old), p + Len(bytes))
  /\ \A i \in 1..Len(new) :
       new[i] = IF p < i /\ i <= p + Len(bytes) THEN bytes[i - p]
                ELSE IF i <= Len(old) THEN old[i]
                ELSE 0

C5_WriteBuffer ==
  [][\A s \in Streams :
       (Called(s, "write") /\ ~streams[s].closed)
       => \A bytes \in SeqsUpTo(MaxWrite), position \in 0..MaxLen :
            (/\ Len(bytes) = last'.n
             /\ position = (IF last'.flag THEN last'.arg ELSE 0)
             /\ WriteFits(s, bytes, last'.flag, position, MaxLen)
             /\ Write(s, bytes, last'.flag, position))
            => /\ last'.res = "ok"
               /\ C5_WritePost(streams[s].data, streams'[s].data, bytes,
                               IF last'.flag THEN position ELSE streams[s].position)
    ]_vars

\* C5 happens: a write at an explicit position beyond the buffer's end has
\* just left a gap
C5_Witness ==
  /\ last.op = "write" /\ last.res = "ok" /\ last.flag
  /\ last.len0 > 0 /\ last.arg > last.len0 /\ last.n > 0

\* C6, as amended: every write on an open stream leaves the cursor at the
\* end of the written chunk, (write position + n), whether the position was
\* the cursor or was supplied by the call.
C6_CursorAfterWrite ==
  [][\A s \in Streams :
       (Called(s, "write") /\ ~streams[s].closed)
       => streams'[s].position = last'.arg + last'.n
    ]_vars

\* C6 as claimed: a write without a position leaves the cursor at
\* (old cursor + n), and a write with a position leaves the cursor where it was.
C6_AsClaimed ==
  [][\A s \in Streams :
       (Called(s, "write") /\ ~streams[s].closed)
       => streams'[s].position = IF last'.flag THEN streams[s].position
                                 ELSE streams[s].position + last'.n
    ]_vars

\* C6 happens: a write with an explicit position has just moved the cursor
\* to the end of its chunk
C6_Witness ==
  /\ last.op = "write" /\ last.res = "ok" /\ last.flag /\ last.n = 2
  /\ last.arg = 0
  /\ streams[last.s].position = 2

\* C10: seek beyond the buffer's end succeeds on an open stream and changes
\* only the cursor; the next write without a position lands at the cursor,
\* growing the buffer to (cursor + n) with zeros in the gap.
C10_SeekBeyondEnd ==
  [][\A s \in Streams :
       /\ (Called(s, "seek") /\ ~streams[s].closed /\ last'.arg > Len(streams[s].data))
            => /\ last'.res = "ok"
               /\ streams'[s] = [streams[s] EXCEPT !.position = last'.arg]
               /\ vol' = vol
       /\ (Called(s, "write") /\ ~last'.flag /\ ~streams[s].closed
             /\ streams[s].position > Len(streams[s].data))
            => /\ Len(streams'[s].data) = streams[s].position + last'.n
               /\ SubSeq(streams'[s].data, 1, Len(streams[s].data)) = streams[s].data
               /\ \A i \in (Len(streams[s].data) + 1)..streams[s].position :
                    streams'[s].data[i] = 0
               /\ last'.arg = streams[s].position
    ]_vars

\* C10 happens: a write without a position has just landed past the old end
C10_Witness ==
  /\ last.op = "write" /\ last.res = "ok" /\ ~last.flag
  /\ last.arg > last.len0 /\ last.n > 0
  /\ Len(streams[last.s].data) = last.arg + last.n

(***************************************************************************)
(* Properties of two streams side by side (checked under SpecTwo, and with *)
(* the arrays followed under SpecAlias).                                   *)
(***************************************************************************)
\* C4: close is idempotent.  A close on a stream that was closed before
\* returns without error and changes neither the volume nor any stream,
\* whatever happened to the file since the first close.
C4_CloseIdempotent ==
  [][\A s \in Streams :
       (Called(s, "close") /\ streams[s].closed)
       => /\ last'.res = "ok"
          /\ vol' = vol
          /\ streams' = streams
    ]_vars

\* C4 happens: a second close has just returned on a stream whose file no
\* longer holds what the stream published (it was removed)
C4_Witness ==
  /\ last.op = "close" /\ last.flag /\ last.res = "ok"
  /\ streams[last.s].data # <<>>
  /\ Kind(vol, last.p) = "none"

\* C7: streams never share a buffer.  No two streams refer to one array, and
\* a call on one stream (its creation, a write, a seek, a truncate, a close)
\* leaves every other stream's buffer, cursor and closed flag as they were;
\* and when a first close succeeds the file holds exactly the closing
\* stream's buffer, whatever another stream on the same path holds or
\* published before.
C7_NoAliasing ==
  [][\A s \in Streams :
       /\ last'.s = s
            => \A t \in Streams \ {s} :
                 /\ streams'[t] = streams[t]
                 /\ dataRef'[t] # 0 => dataRef'[t] # dataRef'[s]
       /\ (Called(s, "close") /\ ~streams[s].closed /\ last'.res = "ok")
            => vol'[streams[s].path] = FileNode(streams[s].data)
    ]_vars

\* C7 happens: two streams are open on one path, one still holds the byte the
\* file holds, and a write to the other has just changed the byte of its
\* buffer in place, so that the two buffers differ
C7_Witness ==
  \E s \in Streams :
    LET t == 3 - s
    IN  /\ last.op = "write" /\ last.s = s /\ last.res = "ok"
        /\ last.n = 1 /\ last.len0 = 1
        /\ \A u \in Streams : streams[u].made /\ ~streams[u].closed
        /\ streams[s].path = streams[t].path
        /\ vol[streams[t].path] = FileNode(streams[t].data)
        /\ Len(streams[t].data) = 1
        /\ streams[s].data # streams[t].data

(***************************************************************************)
(* Properties of a stream under a changing tree (checked under SpecTree).  *)
(***************************************************************************)
\* C9: close makes the parent directory.  A first close succeeds exactly when
\* no component of the parent is a file and the path is not a directory; it
\* then leaves every component of the parent a directory and the path a file
\* holding the buffer, and changes nothing else in the volume.
C9_CloseMakesParent ==
  [][\A s \in Streams :
       (Called(s, "close") /\ ~streams[s].closed)
       => LET p == streams[s].path IN
          /\ last'.res = "ok"
               <=> /\ \A q \in Steps(Parent(p)) : Kind(vol, q) # "file"
                   /\ Kind(vol, p) # "dir"
          /\ last'.res = "ok"
               => /\ \A q \in Steps(Parent(p)) : vol'[q] = DirNode
                  /\ vol'[p] = FileNode(streams[s].data)
                  /\ \A q \in Paths \ (Steps(Parent(p)) \cup {p}) : vol'[q] = vol[q]
          /\ last'.res # "ok" => vol' = vol
    ]_vars

\* C9 happens: a close has just succeeded that found neither the parent nor
\* the parent's parent
C9_Witness ==
  /\ last.op = "close" /\ last.res = "ok" /\ ~last.flag
  /\ last.arg = 2
  /\ vol[SandboxD] = DirNode
  /\ vol[SandboxDOut] = FileNode(streams[last.s].data)
  /\ streams[last.s].data # <<>>

(***************************************************************************)
(* Properties of the shell's redirect (checked under SpecShell).           *)
(***************************************************************************)
\* a redirected command is over: its finally block has just closed the stream
RedirectDone == pc = "prompt" /\ redirectedStdout # 0 /\ last.op = "close"

\* C2: redirect append.  A stream opened with keepExistingData on a file
\* holding c and seeked to the file's size holds, after any writes without a
\* position, c followed by the written chunks in order, with the cursor at the
\* end; once it is closed the file holds c followed by the chunks, and its
\* size is len(c) plus the chunks' lengths.
C2_RedirectAppend ==
  /\ (pc \in {"run", "finally"} /\ redirectedStdout # 0)
       => /\ streams[redirectedStdout].data = redirectBase \o stdoutBytes
          /\ streams[redirectedStdout].position = Len(redirectBase) + Len(stdoutBytes)
  /\ (RedirectDone /\ last.res = "ok")
       => /\ vol[last.p] = FileNode(redirectBase \o stdoutBytes)
          /\ Len(vol[last.p].d) = Len(redirectBase) + Len(stdoutBytes)

\* C2 happens: a >> command has just appended two bytes to a file of two
\* bytes, one of them non-zero, leaving four
C2_Witness ==
  /\ RedirectDone /\ last.res = "ok"
  /\ Len(redirectBase) = 2 /\ Len(stdoutBytes) = 2
  /\ redirectBase[2] = 1
  /\ Len(vol[SandboxOut].d) = 4

\* C8, as amended: closing at run termination is guaranteed.  However the run
\* of a command with a redirected stdout ends, the finally block follows and
\* closes the redirect stream; the bytes written during the run are then in
\* the target file unless the close threw, which it does exactly when the
\* target has become a directory by then.
C8_SafetyPart ==
  /\ (pc = "prompt" /\ redirectedStdout # 0) => streams[redirectedStdout].closed
  /\ RedirectDone
       => IF Kind(vol, last.p) = "dir" THEN last.res = "EISDIR"
          ELSE /\ last.res = "ok"
               /\ vol[last.p] = FileNode(redirectBase \o stdoutBytes)

C8_ClosedAtTermination ==
  /\ []C8_SafetyPart
  /\ \A how \in {"exit0", "exitN", "cancelled", "trap"} :
       (pc = "finally" /\ outcome = how /\ redirectedStdout # 0)
         ~> (pc = "prompt" /\ outcome = how /\ redirectedStdout # 0
               /\ streams[redirectedStdout].closed)

\* C8 as claimed: once a redirected command is over, its stream is closed and
\* the bytes written during the run are in the target file.
C8_AsClaimed ==
  RedirectDone
    => /\ streams[redirectedStdout].closed
       /\ vol[last.p] = FileNode(redirectBase \o stdoutBytes)

\* C8 happens: a cancelled run that had written two bytes has been closed
\* and published
C8_Witness ==
  /\ RedirectDone /\ last.res = "ok"
  /\ outcome = "cancelled"
  /\ Len(stdoutBytes) = 2
  /\ vol[SandboxOut] = FileNode(redirectBase \o stdoutBytes)

(***************************************************************************)
(* Properties of the directory handle's calls (checked under SpecTree).    *)
(***************************************************************************)
\* the step is a call of op on a directory handle
DirCalled(op) == last'.op = op

\* C11: removeEntry on a directory that has entries.  Without the recursive
\* option the call fails with InvalidModificationError (memfs's ENOTEMPTY)
\* and the directory and all its entries stay in place; with it the call
\* succeeds, the directory and its whole subtree are gone and nothing else
\* has changed.
C11_RemoveNonEmpty ==
  [][(DirCalled("removeEntry") /\ Kind(vol, last'.p) = "dir"
        /\ Entries(vol, last'.p) # {})
       => IF last'.flag
          THEN /\ last'.res = "ok"
               /\ \A q \in Paths :
                    vol'[q] = IF IsPrefix(last'.p, q) THEN NoNode ELSE vol[q]
          ELSE /\ last'.res = "InvalidModificationError"
               /\ vol' = vol]_vars

\* C11 happens: removing /sandbox/d, which holds out, was refused
C11_Witness ==
  /\ last.op = "removeEntry" /\ ~last.flag
  /\ last.p = SandboxD
  /\ last.res = "InvalidModificationError"
  /\ Kind(vol, SandboxD) = "dir" /\ Kind(vol, SandboxDOut) # "none"

\* C12: kind mismatch is rejected without side effects.  getFileHandle on a
\* name that is a directory and getDirectoryHandle on a name that is a file
\* fail with TypeMismatchError, with create set or not, and leave the volume
\* as it was.
C12_KindMismatch ==
  [][/\ (DirCalled("getFileHandle") /\ Kind(vol, last'.p) = "dir")
          => (last'.res = "TypeMismatchError" /\ vol' = vol)
     /\ (DirCalled("getDirectoryHandle") /\ Kind(vol, last'.p) = "file")
          => (last'.res = "TypeMismatchError" /\ vol' = vol)]_vars

\* C12 happens: getDirectoryHandle('d', {create: true}) was refused on the
\* file /sandbox/d
C12_Witness ==
  /\ last.op = "getDirectoryHandle" /\ last.flag
  /\ last.p = SandboxD
  /\ last.res = "TypeMismatchError"
  /\ Kind(vol, SandboxD) = "file"

(***************************************************************************)
(* Properties of the shell's cd (checked under SpecCd).                    *)
(***************************************************************************)
\* C13: a failing cd causes no state change.  When the resolution of the
\* destination fails, for leaving the preopens or for the destination being
\* absent or a file, pwd keeps its value; pwd changes only in a cd whose
\* resolution succeeded, and then to the resolved destination, a directory
\* inside a preopen.
C13_FailingCd ==
  [][/\ (last'.op = "cd" /\ last'.res # "ok") => pwd' = pwd
     /\ (last'.op = "cd" /\ last'.res = "ok")
          => /\ pwd' = last'.p
             /\ \E pre \in preOpens : IsPrefix(pre, pwd')
             /\ Kind(vol, pwd') = "dir"
     /\ pwd' # pwd => (last'.op = "cd" /\ last'.res = "ok")]_vars

\* C13 happens: in /sandbox/d, `cd /sandbox/../..` was refused and the
\* working directory is still /sandbox/d
C13_Witness ==
  /\ last.op = "cd" /\ last.res = "NOTCAPABLE"
  /\ last.p = Root
  /\ pwd = SandboxD

(***************************************************************************)
(* truncate (checked under Spec).                                          *)
(***************************************************************************)
\* C14: truncate(size) on an open stream succeeds and makes the buffer
\* exactly size bytes long: the bytes below both the old and the new length
\* are kept and the bytes added are zero; the cursor becomes the smaller of
\* the old cursor and size; the stream stays open and the volume is unchanged.
C14_Truncate ==
  [][\A s \in Streams :
       (Called(s, "truncate") /\ ~streams[s].closed)
         => /\ last'.res = "ok"
            /\ Len(streams'[s].data) = last'.arg
            /\ \A i \in 1..last'.arg :
                 streams'[s].data[i] =
                   IF i <= Len(streams[s].data) THEN streams[s].data[i] ELSE 0
            /\ streams'[s].position =
                 IF streams[s].position < last'.arg THEN streams[s].position
                 ELSE last'.arg
            /\ ~streams'[s].closed
            /\ vol' = vol]_vars

\* C14 happens: a buffer of three bytes was cut to one, a non-zero one, and
\* the cursor pulled back to it
C14_Witness ==
  /\ last.op = "truncate" /\ last.res = "ok"
  /\ last.len0 = 3 /\ last.arg = 1
  /\ streams[1].data = <<1>>
  /\ streams[1].position = 1

(***************************************************************************)
(* Enumeration (checked under SpecEnum).                                   *)
(***************************************************************************)
\* C15: directory enumeration is stable.  An enumeration through values()
\* or keys() that ran to its end with the volume the same at each of its
\* steps has yielded each entry of the directory exactly once, values() with
\* a directory handle for a directory and a file handle for a file; and if
\* the enumeration completed just before it was of the same directory by the
\* same method over the same volume, the two yielded the same sequence.
C15_EnumerationStable ==
  (iter.state = "done" /\ iter.clean)
    => /\ iter.res = "ok"
       /\ {iter.out[i].name : i \in 1..Len(iter.out)}
            = {BaseName(p) : p \in Entries(iter.vol0, iter.dir)}
       /\ Len(iter.out) = Cardinality(Entries(iter.vol0, iter.dir))
       /\ iter.op = "values"
            => \A i \in 1..Len(iter.out) :
                 iter.out[i].kind = Kind(iter.vol0, Child(iter.dir, iter.out[i].name))
       /\ (/\ iter.prev.state = "done" /\ iter.prev.clean
           /\ iter.prev.op = iter.op /\ iter.prev.dir = iter.dir
           /\ iter.prev.vol0 = iter.vol0)
            => iter.prev.out = iter.out

\* C15 happens: two enumerations of /sandbox through values(), one after the
\* other over the same volume, have each yielded its four entries, the
\* directory d among them
C15_Witness ==
  /\ iter.state = "done" /\ iter.clean
  /\ iter.op = "values" /\ iter.dir = Sandbox
  /\ Len(iter.out) = 4
  /\ iter.out[1] = [name |-> "d", kind |-> "dir"]
  /\ iter.prev.state = "done" /\ iter.prev.clean
  /\ iter.prev.op = "values" /\ iter.prev.dir = Sandbox
  /\ iter.prev.vol0 = iter.vol0

(***************************************************************************)
(* The initial volume (checked under Spec).                                *)
(***************************************************************************)
\* the character codes of a text given as its characters
CharCode(c) ==
  CASE c = "h" -> 104 [] c = "e" -> 101 [] c = "l" -> 108 [] c = "o" -> 111
    [] c = " " -> 32  [] c = "f" -> 102 [] c = "r" -> 114 [] c = "m" -> 109
    [] c = "i" -> 105 [] c = "n" -> 110 [] c = "p" -> 112 [] c = "u" -> 117
    [] c = "t" -> 116 [] c = "." -> 46  [] c = "x" -> 120 [] c = "2" -> 50
    [] c = "\n" -> 10

Text(chars) == [i \in 1..Len(chars) |-> CharCode(chars[i])]

\* C16: before any call, the volume made by createMemoryFileSystem holds the
\* directories /sandbox and /tmp and nothing else under the root; /sandbox
\* holds input.txt with the bytes of "hello from input.txt\n", input2.txt
\* with the bytes of "hello from input2.txt\n" and the empty file notadir,
\* and nothing else; /tmp is empty.
C16_InitialVolume ==
  last.op = "none"
    => /\ Entries(vol, Root) = {Sandbox, Tmp}
       /\ vol[Sandbox] = DirNode /\ vol[Tmp] = DirNode
       /\ Entries(vol, Sandbox) = {InputTxt, Input2Txt, NotADir}
       /\ Entries(vol, Tmp) = {}
       /\ vol[InputTxt] =
            FileNode(Text(<<"h", "e", "l", "l", "o", " ", "f", "r", "o", "m", " ",
                            "i", "n", "p", "u", "t", ".", "t", "x", "t", "\n">>))
       /\ vol[Input2Txt] =
            FileNode(Text(<<"h", "e", "l", "l", "o", " ", "f", "r", "o", "m", " ",
                            "i", "n", "p", "u", "t", "2", ".", "t", "x", "t", "\n">>))
       /\ vol[NotADir] = FileNode(<<>>)
       /\ \A p \in Paths \ {Root, Sandbox, Tmp, InputTxt, Input2Txt, NotADir} :
            vol[p] = NoNode

\* C16 happens: the volume before any call, with its three files
C16_Witness ==
  /\ last.op = "none"
  /\ Len(vol[InputTxt].d) = 21 /\ Len(vol[Input2Txt].d) = 22
  /\ Kind(vol, NotADir) = "file"

(***************************************************************************)
(* Cancellation (checked under SpecCancel).  `aborted` is the signal of    *)
(* the command started last, from its start to the start of the next.      *)
(***************************************************************************)
\* C17: cancellation is scoped to one command.  A command's run starts with
\* an un-aborted signal and its own Ctrl+C handler; the handler is registered
\* while the command runs and up to its finally block, and at no other time;
\* and once the run has ended the command's signal changes no more: a Ctrl+C
\* at the prompt neither aborts it after the fact nor leaves the next command
\* aborted at its start.
C17_CancellationScoped ==
  [][/\ (pc = "prompt" /\ pc' = "run") => (~aborted' /\ ctrlCHandler')
     /\ (pc # "run" /\ pc' # "run") => aborted' = aborted
     /\ ctrlCHandler <=> pc \in {"run", "finally"}
     /\ aborted' # aborted => (pc' = "run" /\ (aborted' <=> pc = "run"))]_vars

\* C17 happens: Ctrl+C was pressed at the prompt after a command that ended
\* with exit code 0, and the command's signal is not aborted
C17_Witness ==
  /\ pc = "prompt" /\ last.op = "ctrlC"
  /\ outcome = "exit0"
  /\ ~aborted /\ ~ctrlCHandler

(***************************************************************************)
(* A close that throws (checked under SpecFail).                           *)
(***************************************************************************)
\* C18: a failed close is final.  A first close that throws (the target is
\* a directory, or a component of its parent a file) leaves the stream
\* closed, its buffer as it was and the volume unchanged.  On a stream whose
\* close has thrown, every later write, seek and truncate fails with "Stream
\* is closed", a later close returns without error, and all of them leave
\* the stream and the volume as they were: the buffer is never published.
C18_FailedCloseFinal ==
  [][\A s \in Streams :
       /\ (Called(s, "close") /\ ~streams[s].closed /\ last'.res # "ok")
            => /\ last'.res \in {"EISDIR", "ENOTDIR"}
               /\ streams'[s].closed /\ streams'[s].failed
               /\ streams'[s].data = streams[s].data
               /\ vol' = vol
       /\ streams[s].failed
            => /\ streams[s].closed
               /\ (Called(s, "write") \/ Called(s, "seek") \/ Called(s, "truncate"))
                    => (last'.res = "Stream is closed" /\ streams' = streams
                        /\ vol' = vol)
               /\ Called(s, "close")
                    => (last'.res = "ok" /\ streams' = streams /\ vol' = vol)]_vars

\* C18 happens: a stream holding bytes whose close threw on the directory at
\* its path has been closed again, without error, and the directory is
\* still there
C18_Witness ==
  /\ streams[1].failed /\ streams[1].closed
  /\ last.op = "close" /\ last.s = 1 /\ last.flag /\ last.res = "ok"
  /\ Len(streams[1].data) = 2
  /\ streams[1].path = SandboxOut
  /\ Kind(vol, SandboxOut) = "dir"

(***************************************************************************)
(* getFileHandle (checked under SpecTree).                                 *)
(***************************************************************************)
\* C19, as amended: getFileHandle changes the volume only when it creates.
\* On a handle whose directory exists: with create set and the name absent
\* it makes an empty file of that name and changes nothing else; with the
\* name a file it succeeds and leaves the volume, the file's content
\* included, as it was, create set or not; with create unset and the name
\* absent it fails with NotFoundError and the volume is unchanged.  On a
\* handle whose directory is no longer there the call fails, create set or
\* not, and the volume is unchanged.
C19_CreatesOnly ==
  [][DirCalled("getFileHandle")
       => LET p == last'.p
              create == last'.flag
          IN  IF Kind(vol, Parent(p)) # "dir"
              THEN last'.res # "ok" /\ vol' = vol
              ELSE /\ (Kind(vol, p) = "none" /\ create)
                        => (last'.res = "ok" /\ vol' = [vol EXCEPT ![p] = FileNode(<<>>)])
                   /\ Kind(vol, p) = "file" => (last'.res = "ok" /\ vol' = vol)
                   /\ (Kind(vol, p) = "none" /\ ~create)
                        => (last'.res = "NotFoundError" /\ vol' = vol)
                   /\ vol' # vol => (create /\ Kind(vol, p) = "none")]_vars

\* C19 as claimed: with create set and the name absent the call makes an
\* empty file of that name; with the name a file it succeeds and leaves the
\* volume as it was; with create unset and the name absent it fails with
\* NotFoundError and the volume is unchanged.
C19_AsClaimed ==
  [][DirCalled("getFileHandle")
       => LET p == last'.p
              create == last'.flag
          IN  /\ (Kind(vol, p) = "none" /\ create)
                   => (last'.res = "ok" /\ vol' = [vol EXCEPT ![p] = FileNode(<<>>)])
              /\ Kind(vol, p) = "file" => (last'.res = "ok" /\ vol' = vol)
              /\ (Kind(vol, p) = "none" /\ ~create)
                   => (last'.res = "NotFoundError" /\ vol' = vol)
              /\ vol' # vol => (create /\ Kind(vol, p) = "none")]_vars

\* C19 happens: getFileHandle('out', {create: true}) on /sandbox/d returned
\* the file that was there, and its bytes are still in it
C19_Witness ==
  /\ last.op = "getFileHandle" /\ last.flag /\ last.res = "ok"
  /\ last.p = SandboxDOut
  /\ Kind(vol, SandboxDOut) = "file"
  /\ Len(vol[SandboxDOut].d) = 2

====
